---- MODULE Spec2Model ----
(***************************************************************************)
(* Model of the django-search "quote" application.                         *)
(*                                                                         *)
(*   quote/models.py  Quote(name: CharField(250), quote: TextField(1000))  *)
(*   quote/faker.py   add_fake_data(): 10000 x Quote.objects.create(...)   *)
(*   quote/views.py   QuoteList (ListView over all Quotes) and             *)
(*                    SearchResultsList.get_queryset (icontains filter)    *)
(*                                                                         *)
(* Text is a sequence of one-character strings.  The table of Quotes is a  *)
(* sequence of rows in insertion order (the order an insert-only table is  *)
(* read back in when the model declares no ordering).                      *)
(***************************************************************************)
EXTENDS Integers, Sequences, FiniteSets

VARIABLES
    store,      \* the quote_quote table: rows [id, name, quote]
    nextId,     \* the table's id sequence (next primary key handed out)
    seedPc,     \* add_fake_data: "idle" | "running" | "done" | "failed"
    seedI,      \* add_fake_data: iterations of the for loop completed
    seedStart,  \* number of rows in the table when the current run began
    runs,       \* number of add_fake_data runs started so far
    out,        \* lines printed by the current add_fake_data run
    resp        \* the last HTTP response produced by a list/search view

vars == <<store, nextId, seedPc, seedI, seedStart, runs, out, resp>>
seedVars == <<seedPc, seedI, seedStart, runs, out>>

(***************************************************************************)
(* Bounds of the model.                                                    *)
(***************************************************************************)
\* iterations of the loop of add_fake_data (range(10000) in the source,
\* scaled down so that whole runs can be explored)
SeedCount == 2
\* add_fake_data invocations explored
MaxRuns == 1
\* rows already in the table when the process starts on a populated database
InitCount == 9

(***************************************************************************)
(* Program constants.                                                      *)
(***************************************************************************)
\* models.py: name = models.CharField(max_length=250)
Name_max_length == 250
\* models.py: quote = models.TextField(max_length=1000)
Quote_max_length == 1000

\* Python's None.  Text values are sequences of one-character strings, so
\* this one-element sequence holding a four-character token is no text.
None == <<"None">>

\* faker.py line 12
CompletedMessage == "Completed!!! Check your database."

(***************************************************************************)
(* Text.                                                                   *)
(***************************************************************************)
\* SQL UPPER() on one character (icontains compiles to
\* UPPER(column) LIKE UPPER('%' || q || '%') with q's wildcards escaped).
Upper(c) ==
    CASE c = "a" -> "A"
      [] c = "b" -> "B"
      [] OTHER -> c

UpperStr(s) == [i \in 1..Len(s) |-> Upper(s[i])]

\* Does needle occur in hay at position i or later?
RECURSIVE FindFrom(_, _, _)
FindFrom(hay, needle, i) ==
    IF i + Len(needle) - 1 > Len(hay) THEN FALSE
    ELSE IF SubSeq(hay, i, i + Len(needle) - 1) = needle THEN TRUE
    ELSE FindFrom(hay, needle, i + 1)

\* mutant: a scan that gives up on an empty needle
IContains_EmptyNeverMatches(field, q) ==
    /\ Len(q) > 0
    /\ FindFrom(UpperStr(field), UpperStr(q), 1)

\* mutant: the case-sensitive lookup (field__contains)
IContains_CaseSensitive(field, q) == FindFrom(field, q, 1)

\* field__icontains = q
IContains(field, q) == FindFrom(UpperStr(field), UpperStr(q), 1)

(***************************************************************************)
(* The Quote table.                                                        *)
(***************************************************************************)
Row(id, name, quote) == [id |-> id, name |-> name, quote |-> quote]

\* mutant: the insert reuses the id of the newest row
Quote_objects_create_ReusedId(rows, id, name, quote) ==
    Append(rows, Row(IF id > 1 THEN id - 1 ELSE id, name, quote))

\* Quote.objects.create(name=..., quote=...): one INSERT, id from the sequence
Quote_objects_create(rows, id, name, quote) ==
    Append(rows, Row(id, name, quote))

\* Values fake.name() can return (never empty)
FakeNames == { <<"A", "b">>, <<"b">> }
\* Values fake.text() can return (never empty)
FakeTexts == { <<"a">> }

\* Rows of a database populated before the process starts.
PreloadedNames == << <<"A", "b">>, <<"b", "A">>, <<"a">> >>
PreloadedTexts == << <<"b", "a", "B">>, <<"A">> >>
Preloaded(n) ==
    [i \in 1..n |-> Row(i, PreloadedNames[(i % Len(PreloadedNames)) + 1],
                           PreloadedTexts[(i % Len(PreloadedTexts)) + 1])]

(***************************************************************************)
(* Requests.                                                               *)
(***************************************************************************)
\* Values of the q parameter explored (None: the parameter is absent)
Queries == { <<>>, <<"a">>, <<"B">>, <<"a", "B">>, <<"b", "a">>, <<"b", "b">> }
QueryParams == Queries \cup {None}
\* Values of the page parameter explored
Pages == {1, 2}

(***************************************************************************)
(* views.py                                                                *)
(***************************************************************************)
\* A queryset, or the exception raised while building it.
QuerySet(rows) == [error |-> "", rows |-> rows]
Raised(exc) == [error |-> exc, rows |-> <<>>]

\* request.GET.get('q'): the parameter's value, None when it is absent
GET_get_q(q) == q

\* mutant: the single-field lookup, name only
Matches_NameOnly(row, query) == IContains(row.name, query)

\* Q(name__icontains=query) | Q(quote__icontains=query)
Matches(row, query) ==
    IContains(row.name, query) \/ IContains(row.quote, query)

\* ListView.get_queryset of QuoteList: model = Quote, so Quote.objects.all()
QuoteList_get_queryset(rows) == QuerySet(rows)

\* mutant: no match is an error (get_list_or_404 in place of filter)
SearchResultsList_get_queryset_RaiseOnEmpty(rows, q) ==
    LET query == GET_get_q(q)
        Test(r) == Matches(r, query)
    IN  IF query = None THEN Raised("ValueError")
        ELSE IF SelectSeq(rows, Test) = <<>> THEN Raised("Http404")
        ELSE QuerySet(SelectSeq(rows, Test))

\* SearchResultsList.get_queryset.  A lookup other than exact/iexact given
\* None makes filter() raise ValueError("Cannot use None as a query value").
SearchResultsList_get_queryset(rows, q) ==
    LET query == GET_get_q(q)
        Test(r) == Matches(r, query)
    IN  IF query = None THEN Raised("ValueError")
        ELSE QuerySet(SelectSeq(rows, Test))

\* the smaller of two numbers (used to cut a page at the end of a list)
Min(a, b) == IF a <= b THEN a ELSE b

\* The context a ListView builds for its template.  Neither view sets
\* paginate_by, so the list is not paginated: the whole queryset is the
\* object_list, there is no page object, and ?page= is not looked at.
ListView_context(object_list, page) ==
    [ is_paginated |-> FALSE,
      has_next     |-> FALSE,
      object_list  |-> object_list ]

\* The response of a list view: 200 with the context, or 500 when
\* get_queryset raised (nothing in the views catches the exception).
\* table is the content of the Quote table the request read.
ListView_get(view, q, page, table, qs) ==
    IF qs.error # ""
    THEN [ view |-> view, q |-> q, page |-> page, table |-> table,
           status |-> 500, error |-> qs.error,
           is_paginated |-> FALSE, has_next |-> FALSE, object_list |-> <<>> ]
    ELSE LET ctx == ListView_context(qs.rows, page)
         IN  [ view |-> view, q |-> q, page |-> page, table |-> table,
               status |-> 200, error |-> "",
               is_paginated |-> ctx.is_paginated, has_next |-> ctx.has_next,
               object_list |-> ctx.object_list ]

NoResponse ==
    [ view |-> "none", q |-> None, page |-> 1, table |-> <<>>,
      status |-> 0, error |-> "",
      is_paginated |-> FALSE, has_next |-> FALSE, object_list |-> <<>> ]

(***************************************************************************)
(* faker.py                                                                *)
(***************************************************************************)
\* mutant: the loop stops one iteration early
RangeExhausted_OneShort(i) == i >= SeedCount - 1

\* for x in range(SeedCount): has the loop run all its iterations?
RangeExhausted(i) == i >= SeedCount

(***************************************************************************)
(* State machine.                                                          *)
(***************************************************************************)
Init ==
    /\ \E n \in {0, InitCount} :
          /\ store = Preloaded(n)
          /\ nextId = n + 1
    /\ seedPc = "idle"
    /\ seedI = 0
    /\ seedStart = 0
    /\ runs = 0
    /\ out = <<>>
    /\ resp = NoResponse

\* The operator calls add_fake_data().
StartSeed ==
    /\ seedPc # "running"
    /\ runs < MaxRuns
    /\ seedPc' = "running"
    /\ seedI' = 0
    /\ seedStart' = Len(store)
    /\ runs' = runs + 1
    /\ out' = <<>>
    /\ UNCHANGED <<store, nextId, resp>>

\* One iteration of the loop: Quote.objects.create(name=fake.name(),
\* quote=fake.text()) succeeds.
SeedInsert ==
    /\ seedPc = "running"
    /\ ~RangeExhausted(seedI)
    /\ \E name \in FakeNames, text \in FakeTexts :
          store' = Quote_objects_create(store, nextId, name, text)
    /\ nextId' = nextId + 1
    /\ seedI' = seedI + 1
    /\ UNCHANGED <<seedPc, seedStart, runs, out, resp>>

\* mutant: the run is wrapped in a transaction, a failure undoes its inserts
SeedInsertFail_Rollback ==
    /\ seedPc = "running"
    /\ ~RangeExhausted(seedI)
    /\ seedPc' = "failed"
    /\ store' = SubSeq(store, 1, seedStart)
    /\ UNCHANGED <<nextId, seedI, seedStart, runs, out, resp>>

\* One iteration of the loop: create() raises (store unavailable, write
\* failure).  Nothing catches it: the exception leaves add_fake_data, the
\* rows committed by the earlier iterations stay, print is not reached.
SeedInsertFail ==
    /\ seedPc = "running"
    /\ ~RangeExhausted(seedI)
    /\ seedPc' = "failed"
    /\ UNCHANGED <<store, nextId, seedI, seedStart, runs, out, resp>>

\* The loop is over: print('Completed!!! Check your database.')
SeedFinish ==
    /\ seedPc = "running"
    /\ RangeExhausted(seedI)
    /\ out' = Append(out, CompletedMessage)
    /\ seedPc' = "done"
    /\ UNCHANGED <<store, nextId, seedI, seedStart, runs, resp>>

\* mutant: the listing removes the oldest row it showed
QuoteListRequest_Deleting ==
    /\ \E page \in Pages :
          resp' = ListView_get("QuoteList", None, page, store,
                               QuoteList_get_queryset(store))
    /\ store' = IF store = <<>> THEN store ELSE Tail(store)
    /\ UNCHANGED <<nextId, seedVars>>

\* GET on the "all quotes" listing (QuoteList).
QuoteListRequest ==
    /\ \E page \in Pages :
          resp' = ListView_get("QuoteList", None, page, store,
                               QuoteList_get_queryset(store))
    /\ UNCHANGED <<store, nextId, seedVars>>

\* mutant: the search records the query as a Quote
SearchRequest_SavesQuery ==
    /\ \E q \in QueryParams, page \in Pages :
          /\ resp' = ListView_get("SearchResultsList", q, page, store,
                                  SearchResultsList_get_queryset(store, q))
          /\ store' = Quote_objects_create(store, nextId, q, q)
    /\ nextId' = nextId + 1
    /\ UNCHANGED seedVars

\* GET on the search page (SearchResultsList), with or without ?q=.
SearchRequest ==
    /\ \E q \in QueryParams, page \in Pages :
          resp' = ListView_get("SearchResultsList", q, page, store,
                               SearchResultsList_get_queryset(store, q))
    /\ UNCHANGED <<store, nextId, seedVars>>

Next ==
    \/ StartSeed
    \/ SeedInsert
    \/ SeedInsertFail
    \/ SeedFinish
    \/ QuoteListRequest
    \/ SearchRequest

Spec == Init /\ [][Next]_vars

(***************************************************************************)
(* Vocabulary of the properties.                                           *)
(***************************************************************************)
Range(seq) == { seq[i] : i \in DOMAIN seq }

\* The same letter, whatever the case.
SameLetter(c, d) ==
    \/ c = d
    \/ {c, d} = {"a", "A"}
    \/ {c, d} = {"b", "B"}

\* q occurs in text as a case-insensitive substring.
OccursIn(q, text) ==
    \E off \in 0..(Len(text) - Len(q)) :
        \A i \in 1..Len(q) : SameLetter(text[off + i], q[i])

\* A row satisfies the search predicate for q.
Satisfies(row, q) == OccursIn(q, row.name) \/ OccursIn(q, row.quote)

IsSearch == resp.view = "SearchResultsList"
IsList == resp.view = "QuoteList"

\* The record set the answered request presents, in the default order:
\* every row for the listing, the rows satisfying q for a search.
RecordSet ==
    LET Keep(r) == Satisfies(r, resp.q)
    IN  IF IsList THEN resp.table ELSE SelectSeq(resp.table, Keep)

(***************************************************************************)
(* C1.  For every table content and every query string q, the Quotes a     *)
(* search returns are exactly the stored Quotes whose name or quote        *)
(* contains q case-insensitively: none returned fails the predicate, none  *)
(* satisfying it is omitted.                                               *)
(***************************************************************************)
C1_SearchSoundAndComplete ==
    (IsSearch /\ resp.q # None) =>
        Range(resp.object_list) =
            { r \in Range(resp.table) : Satisfies(r, resp.q) }

\* A search that returned some rows and left others out.
C1_Witness ==
    /\ IsSearch /\ resp.q # None /\ resp.q # <<>>
    /\ resp.object_list # <<>>
    /\ Len(resp.object_list) < Len(resp.table)
    /\ \E r \in Range(resp.object_list) : ~OccursIn(resp.q, r.name)
    /\ \E r \in Range(resp.object_list) : ~OccursIn(resp.q, r.quote)

(***************************************************************************)
(* C2.  A search request with no q parameter at all is treated as "no      *)
(* filter": it ends without an error and returns every Quote.              *)
(* (Stated as claimed; the view fails on such a request.)                  *)
(***************************************************************************)
C2_AbsentQueryReturnsAll ==
    (IsSearch /\ resp.q = None) =>
        /\ resp.status = 200
        /\ resp.object_list = resp.table

(***************************************************************************)
(* C3.  A search with q = "" returns every Quote, the same records as the  *)
(* "all quotes" listing returns on the same table.                         *)
(***************************************************************************)
C3_EmptyQueryIsFullListing ==
    (IsSearch /\ resp.q = <<>>) =>
        /\ resp.status = 200
        /\ Range(resp.object_list) = Range(resp.table)
        /\ resp.object_list =
              ListView_get("QuoteList", None, resp.page, resp.table,
                           QuoteList_get_queryset(resp.table)).object_list

\* A search with q = "" answered on a table that holds rows.
C3_Witness ==
    /\ IsSearch /\ resp.q = <<>>
    /\ Len(resp.table) >= 2
    /\ Len(resp.object_list) = Len(resp.table)

(***************************************************************************)
(* C4.  For every string q (the empty one included) the search does not    *)
(* end in an error; when no stored Quote matches q the result is empty.    *)
(***************************************************************************)
C4_SearchNeverFails ==
    (IsSearch /\ resp.q # None) =>
        /\ resp.status = 200
        /\ resp.error = ""
        /\ (\A r \in Range(resp.table) : ~Satisfies(r, resp.q))
              => resp.object_list = <<>>

\* A search that matched nothing on a table that holds rows.
C4_Witness ==
    /\ IsSearch /\ resp.q # None
    /\ resp.table # <<>>
    /\ resp.status = 200
    /\ resp.object_list = <<>>

(***************************************************************************)
(* C5.  Both list endpoints answer in pages of 10: for a record set of     *)
(* size M, page K holds the records at positions 10*(K-1) up to but        *)
(* excluding 10*K, the last page the remainder, and has_next is true       *)
(* exactly when records remain after page K.  Stated for the pages that    *)
(* exist (page 1, and every page that starts inside the record set).       *)
(* (Stated as claimed; the views set no page size, so a list of more than  *)
(* ten records is answered whole.)                                         *)
(***************************************************************************)
C5_PagesOfTen ==
    LET M == Len(RecordSet)
        K == resp.page
    IN  (resp.status = 200 /\ (K = 1 \/ 10 * (K - 1) < M)) =>
            /\ resp.object_list =
                  SubSeq(RecordSet, 10 * (K - 1) + 1, Min(10 * K, M))
            /\ resp.has_next = (10 * K < M)

(***************************************************************************)
(* C6.  A run of add_fake_data that completes adds exactly N Quotes to the *)
(* table (N the loop count), each with a non-empty name and a non-empty    *)
(* quote.                                                                  *)
(***************************************************************************)
C6_SeedAddsExactlyN ==
    seedPc = "done" =>
        /\ Len(store) = seedStart + SeedCount
        /\ \A i \in (seedStart + 1)..Len(store) :
              /\ store[i].name # None /\ Len(store[i].name) > 0
              /\ store[i].quote # None /\ Len(store[i].quote) > 0

\* A completed run on a table that already held rows.
C6_Witness ==
    /\ seedPc = "done"
    /\ seedStart > 0
    /\ out = <<CompletedMessage>>

(***************************************************************************)
(* C7.  The list and search requests are read-only: a request (any view,   *)
(* any q) leaves the table exactly as it was.                              *)
(***************************************************************************)
C7_RequestsReadOnly ==
    [][(resp' # resp \/ UNCHANGED seedVars) => store' = store]_vars

\* A search answered while a seed run is under way, on a table that holds rows.
C7_Witness ==
    /\ IsSearch
    /\ resp.table = store
    /\ store # <<>>
    /\ seedPc = "running"

(***************************************************************************)
(* C8.  If an insert fails at iteration k of a seed run, the failure ends  *)
(* the run: no further iteration is attempted, the completion message is   *)
(* not printed, and the k-1 Quotes inserted before it stay in the table.   *)
(***************************************************************************)
C8_FailureEndsRun ==
    /\ [](seedPc = "failed" =>
            /\ out = <<>>
            /\ seedI < SeedCount
            /\ Len(store) = seedStart + seedI)
    /\ [][seedPc = "failed" =>
            /\ store' = store
            /\ out' = out
            /\ (seedPc' = "failed" \/ runs' = runs + 1)]_vars

\* A run that failed after at least one insert.
C8_Witness ==
    /\ seedPc = "failed"
    /\ seedI >= 1
    /\ Len(store) > seedStart

(***************************************************************************)
(* C9.  In every reachable state every Quote has both fields present, a    *)
(* name of at most 250 characters, a quote of at most 1000 characters, and *)
(* an id no other Quote shares.                                            *)
(***************************************************************************)
C9_QuoteInvariant ==
    /\ \A i \in DOMAIN store :
          /\ store[i].name # None
          /\ store[i].quote # None
          /\ Len(store[i].name) <= Name_max_length
          /\ Len(store[i].quote) <= Quote_max_length
    /\ \A i, j \in DOMAIN store : i # j => store[i].id # store[j].id

\* Rows were inserted and a request was answered.
C9_Witness ==
    /\ Len(store) >= 2
    /\ seedI >= 2
    /\ resp.view # "none"

(***************************************************************************)
(* C10.  A Quote once created is never updated or deleted: every Quote of  *)
(* a state is in the next state with the same id, name and quote, and the  *)
(* table changes only by an insert of the seed loop.                       *)
(***************************************************************************)
C10_QuotesOnlyAdded ==
    [][/\ \A r \in Range(store) : r \in Range(store')
       /\ store' # store =>
             /\ seedPc = "running"
             /\ seedI' = seedI + 1
             /\ Len(store') = Len(store) + 1]_vars

\* The table grew by a whole run and was then listed.
C10_Witness ==
    /\ IsList
    /\ seedPc = "done"
    /\ resp.table = store
    /\ Len(store) = seedStart + SeedCount

====
